---- MODULE Spec2Model ----
(***************************************************************************)
(* Voice detection API: the detection pipeline of src/detector.py and      *)
(* src/audio_processor.py (decode -> extract features -> score ->          *)
(* classify) and the POST /detect route of src/main.py that serves it.     *)
(*                                                                         *)
(* Numbers.  Python floats are modelled as tagged fixed-point values:      *)
(*   [k |-> "fin", v |-> n]   a finite value, n an integer count of units  *)
(*   [k |-> "nan", v |-> 0]   NaN                                          *)
(*   [k |-> "inf", v |-> 0]   +infinity                                    *)
(* Scores, noise and confidences count units of 1/10000 (One = 1.0).       *)
(* Sub-scores, tanh arguments and feature weights count hundredths.        *)
(* A statistic is counted in a unit of its own, chosen so that the         *)
(* divisor the scorer applies to it is an integer:                         *)
(*   mfcc_var               unit 1      (divisor 100.0      -> 100)        *)
(*   spectral_centroid_var  unit 10^4   (divisor 1000000.0  -> 100)        *)
(*   rms_var                unit 10^-4  (divisor 0.01       -> 100)        *)
(*   chroma_std             unit 10^-3  (divisor 0.3        -> 300)        *)
(*   tonnetz_std            unit 10^-3  (divisor 0.2        -> 200)        *)
(*   zcr_std                unit 10^-3  (divisor 0.05       -> 50)         *)
(***************************************************************************)
EXTENDS Integers, Sequences, FiniteSets, TLC

\* ------------------------------------------------------------- bounds
\* Number of POST /detect requests a behaviour of Spec holds.
NumRequests == 2
\* Longest vector-valued statistic of SpecDetect (the program's are 13, 12, 6).
MaxVecLen == 2
\* Most frames of a decoded AudioSegment of SpecDecode.
MaxFrames == 2
\* Most entries of a feature dictionary of SpecFlatten.
MaxEntries == 3

\* ------------------------------------------------------------- floats
Hundred == 10 * 10
One == Hundred * Hundred
Half == One \div 2

Fin(n) == [k |-> "fin", v |-> n]
NaN == [k |-> "nan", v |-> 0]
PosInf == [k |-> "inf", v |-> 0]
IsFin(x) == x.k = "fin"

\* x < y of IEEE floats: every comparison with NaN is false.
FLt(x, y) ==
    CASE x.k = "nan" \/ y.k = "nan" -> FALSE
      [] x.k = "inf" -> FALSE
      [] y.k = "inf" -> TRUE
      [] OTHER -> x.v < y.v

\* x >= y of IEEE floats.
FGe(x, y) ==
    CASE x.k = "nan" \/ y.k = "nan" -> FALSE
      [] x.k = "inf" -> TRUE
      [] y.k = "inf" -> FALSE
      [] OTHER -> x.v >= y.v

\* x + y, for operands that are never -infinity.
FAdd(x, y) ==
    CASE x.k = "nan" \/ y.k = "nan" -> NaN
      [] x.k = "inf" \/ y.k = "inf" -> PosInf
      [] OTHER -> Fin(x.v + y.v)

\* n - y for a finite n: the model never forms n - inf (a sub-score is finite or NaN).
FSubFrom(n, y) == IF y.k = "fin" THEN Fin(n - y.v) ELSE NaN

\* Python's builtin min(a, b): a, unless b < a.
PyMin(a, b) == IF FLt(b, a) THEN b ELSE a

\* Python's builtin max(a, b): a, unless b > a.
PyMax(a, b) == IF FLt(a, b) THEN b ELSE a

\* A clamp that was left out.
Clamp01Missing(x) == x

\* max(0.0, min(1.0, x)), the expression of detector.py lines 56 and 129.
Clamp01(x) == PyMax(Fin(0), PyMin(Fin(One), x))

\* np.tanh on hundredths, by the Pade approximant x(27 + x^2)/(27 + 9x^2), which
\* is odd, increasing and reaches 1.0 at x = 3.0, where it is held.
TanhH(x) ==
    LET a == IF x < 0 THEN -x ELSE x
        t == IF a >= 3 * Hundred
             THEN Hundred
             ELSE (a * (27 * One + a * a)) \div (27 * One + 9 * a * a)
    IN IF x < 0 THEN -t ELSE t

RECURSIVE SumV(_)
SumV(s) == IF s = <<>> THEN Fin(0) ELSE FAdd(Head(s), SumV(Tail(s)))

\* np.mean of a vector of floats.
NpMean(s) ==
    LET t == SumV(s)
    IN IF IsFin(t) THEN Fin(t.v \div Len(s)) ELSE t

\* 1.0 - np.tanh(x / d), in hundredths.
Saturate(x, d) ==
    CASE x.k = "nan" -> NaN
      [] x.k = "inf" -> Fin(0)
      [] OTHER -> Fin(Hundred - TanhH((x.v * Hundred) \div d))

\* sub-score * weight: hundredths times hundredths, units of 1/10000.
Weighted(s, w) == IF IsFin(s) THEN Fin(s.v * w) ELSE s

\* ------------------------------------------------------------- state
VARIABLES
    pc,               \* per request: where its handler / detect call stands
    key,              \* per request: the X-API-Key header, <<>> when missing
    audio,            \* per request: the payload, [text, media]
    samples,          \* detect's local audio_array, <<>> until assigned
    features,         \* detect's local features, <<>> until assigned
    noise,            \* the value np.random.normal returned to this call
    score,            \* detect's local ai_score, <<>> until assigned
    stages,           \* per request: the pipeline stages entered, in order
    outcome,          \* what detect gave its caller: <<>>, a return or a raise
    raised,           \* the HTTPException the route raised, <<>> if none
    resp,             \* the HTTP response the client received, <<>> until sent
    rng_draws,        \* state of numpy's global generator: draws made so far
    feature_weights,  \* VoiceDetector.feature_weights, in hundredths
    sample_rate,      \* AudioProcessor.sample_rate
    config,           \* the Config singleton of config.py
    loop,             \* the request whose coroutine holds the event loop, 0 if none
    health_served,    \* whether a GET /health has been answered so far
    dec,              \* a call of base64_to_audio on a decoded AudioSegment (SpecDecode)
    flat              \* a call of flatten_features (SpecFlatten)

vars == <<pc, key, audio, samples, features, noise, score, stages, outcome,
          raised, resp, rng_draws, feature_weights, sample_rate, config, loop,
          health_served, dec, flat>>

Requests == 1 .. NumRequests

\* ------------------------------------------------------------- scorer
\* A scorer that accumulates across calls: it reads the generator's position.
CalculateAiScoreStateful(f, n) ==
    LET w == feature_weights
        scores == <<
            Weighted(Saturate(NpMean(f.mfcc_var), 100), w.mfcc_consistency),
            Weighted(Saturate(f.spectral_centroid_var, 100), w.spectral_stability),
            Weighted(Saturate(f.rms_var, 100), w.energy_regularity),
            Weighted(Saturate(NpMean(f.chroma_std), 300), w.pitch_consistency),
            Weighted(Saturate(NpMean(f.tonnetz_std), 200), w.harmonic_patterns),
            Weighted(Saturate(f.zcr_std, 50), w.temporal_variation) >>
    IN Clamp01(FAdd(FAdd(SumV(scores), Fin(n)), Fin(rng_draws * Hundred)))

\* VoiceDetector._calculate_ai_score, n the value np.random.normal(0, 0.05) gave.
CalculateAiScore(f, n) ==
    LET w == feature_weights
        scores == <<
            Weighted(Saturate(NpMean(f.mfcc_var), 100), w.mfcc_consistency),
            Weighted(Saturate(f.spectral_centroid_var, 100), w.spectral_stability),
            Weighted(Saturate(f.rms_var, 100), w.energy_regularity),
            Weighted(Saturate(NpMean(f.chroma_std), 300), w.pitch_consistency),
            Weighted(Saturate(NpMean(f.tonnetz_std), 200), w.harmonic_patterns),
            Weighted(Saturate(f.zcr_std, 50), w.temporal_variation) >>
        total_score == FAdd(SumV(scores), Fin(n))
    IN Clamp01(total_score)

\* What detect gives its caller.
Return(classification, confidence) ==
    [kind |-> "return", classification |-> classification,
     confidence |-> confidence, type |-> "", msg |-> <<>>]
Raise(type, msg) ==
    [kind |-> "raise", classification |-> "", confidence |-> NaN,
     type |-> type, msg |-> msg]

\* The threshold test written with > for >=.
ClassifyStrict(s) ==
    IF FLt(Fin(Half), s)
    THEN Return("AI_GENERATED", Clamp01(s))
    ELSE Return("HUMAN", Clamp01(FSubFrom(One, s)))

\* detect, lines 47-58: threshold, confidence, final clamp, return.
Classify(s) ==
    IF FGe(s, Fin(Half))
    THEN Return("AI_GENERATED", Clamp01(s))
    ELSE Return("HUMAN", Clamp01(FSubFrom(One, s)))

\* ------------------------------------------------------------- payloads
IsSpace(c) == c = " "

RECURSIVE LStrip(_)
LStrip(s) == IF s # <<>> /\ IsSpace(Head(s)) THEN LStrip(Tail(s)) ELSE s

RECURSIVE RStrip(_)
RStrip(s) ==
    IF s # <<>> /\ IsSpace(s[Len(s)]) THEN RStrip(SubSeq(s, 1, Len(s) - 1)) ELSE s

\* str.strip()
Strip(s) == RStrip(LStrip(s))

\* The characters of the base64 alphabet that the payloads use.
IsB64Char(c) == c = "A"

\* base64.b64decode(s), validate=False: characters outside the alphabet are
\* dropped; what is left must come in groups of four, or binascii.Error is raised.
\* The bytes are counted, their content is the payload's media.
B64Decode(s) ==
    LET data == SelectSeq(s, IsB64Char)
    IN IF Len(data) % 4 = 0
       THEN [ok |-> TRUE, nbytes |-> 3 * (Len(data) \div 4), error |-> ""]
       ELSE [ok |-> FALSE, nbytes |-> 0, error |-> "Incorrect padding"]

\* A payload is the text of the audio field and the media its bytes hold:
\*   "garbage"     bytes that are no MP3 container
\*   "degenerate"  an MP3 of zero samples, on which feature extraction raises
\*   "huge"        a valid MP3 on which feature extraction runs out of memory
\*   "signal"      a valid MP3; stats are the statistics librosa computes on it
Stats(mfcc, centroid, rms, chroma, tonnetz, zcr) ==
    [mfcc_var |-> mfcc, spectral_centroid_var |-> centroid, rms_var |-> rms,
     chroma_std |-> chroma, tonnetz_std |-> tonnetz, zcr_std |-> zcr]

NoStats == Stats(<<>>, Fin(0), Fin(0), <<>>, <<>>, Fin(0))
Media(kind, st) == [kind |-> kind, stats |-> st]
Payload(text, media) == [text |-> text, media |-> media]

Ok(v) == [ok |-> TRUE, value |-> <<v>>, error |-> <<>>]
Err(msg) == [ok |-> FALSE, value |-> <<>>, error |-> msg]

\* AudioProcessor.base64_to_audio: b64decode, AudioSegment.from_file, and the
\* except clause that turns every failure into ValueError("Error processing audio: ...").
Base64ToAudio(p, sr) ==
    LET d == B64Decode(p.text)
    IN IF ~d.ok
       THEN Err(<<"Error processing audio: ", d.error>>)
       ELSE IF d.nbytes = 0 \/ p.media.kind = "garbage"
       THEN Err(<<"Error processing audio: ", "Decoding failed">>)
       ELSE Ok([signal |-> p.media, sr |-> sr])

\* AudioProcessor.extract_features: the statistics, or the except clause's
\* ValueError("Error extracting features: ...") when a librosa call raises.
\* No statistic is tested for being finite.
ExtractFeatures(a) ==
    CASE a.signal.kind = "degenerate" ->
            Err(<<"Error extracting features: ", "empty signal">>)
      [] a.signal.kind = "huge" ->
            Err(<<"Error extracting features: ", "MemoryError">>)
      [] OTHER -> Ok(a.signal.stats)

\* An except clause that re-raises what it caught.
DetectExceptBare(msg) == Raise("ValueError", msg)

\* detect, lines 60-61: except Exception as e: raise ValueError(f"Detection error: {e}")
DetectExcept(msg) == Raise("ValueError", <<"Detection error: ">> \o msg)

\* ------------------------------------------------------------- HTTP layer
API_KEY == "hackathon-voice-detection-key-2026"

HTTPException(status_code, detail) == [status_code |-> status_code, detail |-> detail]

\* Python's truth value of an Optional[str] header: None and "" are false.
Truthy(k) == k # <<>> /\ k[1] # ""

\* detect_voice, line 135.
KeyRejected(k) == ~Truthy(k) \/ k[1] # API_KEY

\* detect_voice, line 146: not request.audio or len(request.audio.strip()) == 0
AudioEmpty(text) == text = <<>> \/ Len(Strip(text)) = 0

\* The except clauses of detect_voice, lines 162-173, for an exception of the
\* given type raised inside its try block.
RouteExcept(type, msg) ==
    IF type = "ValueError"
    THEN HTTPException(400, <<"Invalid audio data: ">> \o msg)
    ELSE HTTPException(500, <<"Internal server error during voice detection">>)

\* round(confidence, 2), half to even, on units of 1/10000.
Round2(c) ==
    LET q == c \div Hundred
        rem == c % Hundred
    IN IF rem > 50 \/ (rem = 50 /\ q % 2 = 1) THEN (q + 1) * Hundred ELSE q * Hundred

\* http_exception_handler returns a dict, not a Response.
HttpExceptionHandler(exc) ==
    [is_response |-> FALSE, error |-> exc.detail, status_code |-> exc.status_code]

\* What the client receives for an HTTPException that leaves the route. The
\* framework awaits the handler's result as an ASGI response; a dict is not one,
\* the TypeError reaches general_exception_handler, which returns a dict as
\* well, and the server answers with its own 500.
ExceptionResponse(exc) ==
    LET h == HttpExceptionHandler(exc)
    IN IF h.is_response
       THEN [status |-> h.status_code, classification |-> "", confidence |-> NaN]
       ELSE [status |-> 500, classification |-> "", confidence |-> NaN]

\* DetectionResponse(classification=..., confidence=round(confidence, 2)) sent as 200.
SuccessResponse(o) ==
    [status |-> 200, classification |-> o.classification,
     confidence |-> Fin(Round2(o.confidence.v))]

\* The Field(ge=0.0, le=1.0) validation of DetectionResponse.confidence.
ConfidenceValid(c) == FGe(c, Fin(0)) /\ FGe(Fin(One), c)

\* ------------------------------------------------------------- inputs
EmptyText == <<>>
BlankText == <<" ", " ">>
BadPadText == <<"A">>
GoodText == <<"A", "A", "A", "A">>

Junk == Media("garbage", NoStats)

\* The values np.random.normal(0, 0.05) is given: 0, one and three deviations.
NoiseValues == {-1500, -500, 0, 500, 1500}

\* Sub-scores 1, 0, 1, 0, 0, 1: a raw composite of exactly 0.5.
TieStats ==
    Stats(<<Fin(0), Fin(0)>>, Fin(300), Fin(0),
          <<Fin(900), Fin(900)>>, <<Fin(600), Fin(600)>>, Fin(0))
\* The same with a NaN RMS variance.
NaNStats == [TieStats EXCEPT !.rms_var = NaN]
\* Every statistic far above its divisor: a raw composite of 0.0.
HumanStats == [TieStats EXCEPT !.mfcc_var = <<Fin(300), Fin(400)>>,
                               !.rms_var = Fin(300), !.zcr_std = Fin(150)]
\* Every statistic zero: a raw composite of 1.0.
AiStats ==
    Stats(<<Fin(0), Fin(0)>>, Fin(0), Fin(0),
          <<Fin(0), Fin(0)>>, <<Fin(0), Fin(0)>>, Fin(0))

ServedStats == {TieStats, NaNStats, HumanStats, AiStats}

BrokenAudios ==
    {Payload(t, Junk) : t \in {EmptyText, BlankText, BadPadText, GoodText}}
    \cup {Payload(GoodText, Media(k, NoStats)) : k \in {"degenerate", "huge"}}

\* The audio fields of the requests of Spec.
Audios ==
    BrokenAudios \cup {Payload(GoodText, Media("signal", st)) : st \in ServedStats}

\* The X-API-Key headers of the requests of Spec: missing, empty, wrong, right.
Keys == {<<>>, <<"">>, <<"invalid-key">>, <<API_KEY>>}

Vectors(S) == UNION {[1 .. n -> S] : n \in 1 .. MaxVecLen}

WideStats ==
    [mfcc_var : Vectors({Fin(0), Fin(300), NaN}),
     spectral_centroid_var : {Fin(0), PosInf},
     rms_var : {Fin(0), Fin(300)},
     chroma_std : Vectors({Fin(0), Fin(900)}),
     tonnetz_std : Vectors({Fin(0), Fin(600)}),
     zcr_std : {Fin(0), Fin(25), NaN}]

\* The arguments of the direct calls of SpecDetect.
WideAudios ==
    BrokenAudios \cup {Payload(GoodText, Media("signal", st)) : st \in WideStats}

\* ------------------------------------------------------------- Init
Init ==
    /\ pc = [r \in Requests |-> "idle"]
    /\ key = [r \in Requests |-> <<>>]
    /\ audio = [r \in Requests |-> Payload(EmptyText, Junk)]
    /\ samples = [r \in Requests |-> <<>>]
    /\ features = [r \in Requests |-> <<>>]
    /\ noise = [r \in Requests |-> <<>>]
    /\ score = [r \in Requests |-> <<>>]
    /\ stages = [r \in Requests |-> <<>>]
    /\ outcome = [r \in Requests |-> <<>>]
    /\ raised = [r \in Requests |-> <<>>]
    /\ resp = [r \in Requests |-> <<>>]
    /\ rng_draws = 0
    /\ feature_weights =
         [mfcc_consistency |-> 25, spectral_stability |-> 20,
          energy_regularity |-> 15, pitch_consistency |-> 15,
          harmonic_patterns |-> 15, temporal_variation |-> 10]
    /\ config =
         [SAMPLE_RATE |-> 22050, MAX_AUDIO_DURATION |-> 60, AI_THRESHOLD |-> Half,
          N_MFCC |-> 13, HOP_LENGTH |-> 512, N_FFT |-> 2048]
    /\ sample_rate = config.SAMPLE_RATE
    /\ loop = 0
    /\ health_served = FALSE
    /\ dec = [pc |-> "idle"]
    /\ flat = [pc |-> "idle"]

shared == <<rng_draws, feature_weights, sample_rate, config>>
locals == <<samples, features, noise, score>>
\* What the steps of detect and of detect_voice never touch.
aside == <<health_served, dec, flat>>

\* ------------------------------------------------------------- detect
\* detect, line 41: base64_to_audio, or the except clause of lines 60-61.
Base64ToAudioStep(r) ==
    /\ pc[r] = "detect"
    /\ stages' = [stages EXCEPT ![r] = Append(@, "decode")]
    /\ LET res == Base64ToAudio(audio[r], sample_rate)
       IN IF res.ok
          THEN /\ samples' = [samples EXCEPT ![r] = res.value]
               /\ pc' = [pc EXCEPT ![r] = "decoded"]
               /\ UNCHANGED outcome
          ELSE /\ outcome' = [outcome EXCEPT ![r] = <<DetectExcept(res.error)>>]
               /\ pc' = [pc EXCEPT ![r] = "raised"]
               /\ UNCHANGED samples
    /\ UNCHANGED <<key, audio, features, noise, score, raised, resp, shared, loop>>
    /\ UNCHANGED aside

\* detect, line 42: extract_features, or the except clause of lines 60-61.
ExtractFeaturesStep(r) ==
    /\ pc[r] = "decoded"
    /\ stages' = [stages EXCEPT ![r] = Append(@, "extract")]
    /\ LET res == ExtractFeatures(samples[r][1])
       IN IF res.ok
          THEN /\ features' = [features EXCEPT ![r] = res.value]
               /\ pc' = [pc EXCEPT ![r] = "extracted"]
               /\ UNCHANGED outcome
          ELSE /\ outcome' = [outcome EXCEPT ![r] = <<DetectExcept(res.error)>>]
               /\ pc' = [pc EXCEPT ![r] = "raised"]
               /\ UNCHANGED features
    /\ UNCHANGED <<key, audio, samples, noise, score, raised, resp, shared, loop>>
    /\ UNCHANGED aside

\* A scoring step that also tunes the detector's weights for later calls.
CalculateAiScoreStepTuning(r) ==
    /\ pc[r] = "extracted"
    /\ stages' = [stages EXCEPT ![r] = Append(@, "score")]
    /\ \E n \in NoiseValues :
          /\ noise' = [noise EXCEPT ![r] = <<n>>]
          /\ score' = [score EXCEPT ![r] = <<CalculateAiScore(features[r][1], n)>>]
    /\ rng_draws' = rng_draws + 1
    /\ feature_weights' = [feature_weights EXCEPT !.temporal_variation = 0]
    /\ pc' = [pc EXCEPT ![r] = "scored"]
    /\ UNCHANGED <<key, audio, samples, features, outcome, raised, resp,
                   sample_rate, config, loop>>
    /\ UNCHANGED aside

\* detect, line 45: _calculate_ai_score; np.random.normal draws from numpy's
\* process-wide generator and advances it.
CalculateAiScoreStep(r) ==
    /\ pc[r] = "extracted"
    /\ stages' = [stages EXCEPT ![r] = Append(@, "score")]
    /\ \E n \in NoiseValues :
          /\ noise' = [noise EXCEPT ![r] = <<n>>]
          /\ score' = [score EXCEPT ![r] = <<CalculateAiScore(features[r][1], n)>>]
    /\ rng_draws' = rng_draws + 1
    /\ pc' = [pc EXCEPT ![r] = "scored"]
    /\ UNCHANGED <<key, audio, samples, features, outcome, raised, resp,
                   feature_weights, sample_rate, config, loop>>
    /\ UNCHANGED aside

\* detect, lines 47-58.
ClassifyStep(r) ==
    /\ pc[r] = "scored"
    /\ stages' = [stages EXCEPT ![r] = Append(@, "classify")]
    /\ outcome' = [outcome EXCEPT ![r] = <<Classify(score[r][1])>>]
    /\ pc' = [pc EXCEPT ![r] = "returned"]
    /\ UNCHANGED <<key, audio, locals, raised, resp, shared, loop>>
    /\ UNCHANGED aside

\* A caller outside the HTTP layer calls detector.detect(text) directly.
CallDetect(r) ==
    /\ pc[r] = "idle"
    /\ \E a \in WideAudios : audio' = [audio EXCEPT ![r] = a]
    /\ pc' = [pc EXCEPT ![r] = "detect"]
    /\ UNCHANGED <<key, locals, stages, outcome, raised, resp, shared, loop>>
    /\ UNCHANGED aside

\* ------------------------------------------------------------- POST /detect
\* detect_voice is a coroutine without an await: from the moment the event loop
\* starts it until its response is sent, no other coroutine runs.

\* An HTTPException leaves the route: the exception handlers answer the client.
Fail(r, exc) ==
    /\ raised' = [raised EXCEPT ![r] = <<exc>>]
    /\ resp' = [resp EXCEPT ![r] = <<ExceptionResponse(exc)>>]
    /\ pc' = [pc EXCEPT ![r] = "done"]
    /\ loop' = 0

\* The event loop starts detect_voice for a request that has arrived.
Receive(r) ==
    /\ loop = 0
    /\ pc[r] = "idle"
    /\ \E k \in Keys : key' = [key EXCEPT ![r] = k]
    /\ \E a \in Audios : audio' = [audio EXCEPT ![r] = a]
    /\ pc' = [pc EXCEPT ![r] = "auth"]
    /\ loop' = r
    /\ UNCHANGED <<locals, stages, outcome, raised, resp, shared>>
    /\ UNCHANGED aside

\* detect_voice, lines 134-140: the key check, outside the try block.
VerifyKeyStep(r) ==
    /\ pc[r] = "auth"
    /\ IF KeyRejected(key[r])
       THEN Fail(r, HTTPException(401,
                <<"Missing or invalid API key. Provide X-API-Key in request headers.">>))
       ELSE /\ pc' = [pc EXCEPT ![r] = "validate"]
            /\ UNCHANGED <<raised, resp, loop>>
    /\ UNCHANGED <<key, audio, locals, stages, outcome, shared>>
    /\ UNCHANGED aside

\* detect_voice, lines 145-153: the HTTPException(400) for an empty audio field
\* is raised inside the try block, whose except clauses see it; otherwise
\* detector.detect is called.
ValidateStep(r) ==
    /\ pc[r] = "validate"
    /\ IF AudioEmpty(audio[r].text)
       THEN Fail(r, RouteExcept("HTTPException", <<"Audio field cannot be empty">>))
       ELSE /\ pc' = [pc EXCEPT ![r] = "detect"]
            /\ UNCHANGED <<raised, resp, loop>>
    /\ UNCHANGED <<key, audio, locals, stages, outcome, shared>>
    /\ UNCHANGED aside

\* detect_voice, lines 155-160: detect returned; the response model is built
\* (a confidence outside [0, 1] fails its validation with a ValueError).
RouteReturnStep(r) ==
    /\ pc[r] = "returned"
    /\ loop = r
    /\ LET o == outcome[r][1]
       IN IF ConfidenceValid(o.confidence)
          THEN /\ resp' = [resp EXCEPT ![r] = <<SuccessResponse(o)>>]
               /\ pc' = [pc EXCEPT ![r] = "done"]
               /\ loop' = 0
               /\ UNCHANGED raised
          ELSE Fail(r, RouteExcept("ValueError", <<"validation error">>))
    /\ UNCHANGED <<key, audio, locals, stages, outcome, shared>>
    /\ UNCHANGED aside

\* detect_voice, lines 162-173: detect raised.
RouteRaisedStep(r) ==
    /\ pc[r] = "raised"
    /\ loop = r
    /\ LET e == outcome[r][1] IN Fail(r, RouteExcept(e.type, e.msg))
    /\ UNCHANGED <<key, audio, locals, stages, outcome, shared>>
    /\ UNCHANGED aside

\* ------------------------------------------------------------- GET /health
\* health_check, a coroutine like detect_voice: the event loop runs it only
\* when no other coroutine holds the loop. It returns a dict, which the
\* framework serializes as the body of a 200.
HealthCheck ==
    /\ loop = 0
    /\ health_served' = TRUE
    /\ UNCHANGED <<pc, key, audio, locals, stages, outcome, raised, resp, shared,
                   loop, dec, flat>>

\* ------------------------------------------------------------- base64_to_audio, lines 32-51
\* What base64_to_audio does with the AudioSegment pydub decoded. A sample is an
\* exact dyadic number num / 2^exp; float32 rounding is left out. pydub reports
\* sample widths of 1, 2 and 4 bytes (it widens 24-bit data to 32 bits on load).
RECURSIVE Pow2(_)
Pow2(n) == IF n = 0 THEN 1 ELSE 2 * Pow2(n - 1)

Dy(num, exp) == [num |-> num, exp |-> exp]

\* The least and the greatest sample of a width, and the values between them
\* that the segments of SpecDecode hold.
SampleMin(w) == (-Pow2(8 * w - 2)) - Pow2(8 * w - 2)
SampleMax(w) == (Pow2(8 * w - 2) - 1) + Pow2(8 * w - 2)
SampleValues(w) == {SampleMin(w), 0, 1, SampleMax(w)}

\* Lines 33-39: np.array(get_array_of_samples()), divided by 32768.0 for a
\* width of 2 and by 2147483648.0 for a width of 4, left as it is otherwise.
Normalize(raw, width) ==
    [i \in 1 .. Len(raw) |->
        IF width = 2 THEN Dy(raw[i], 15)
        ELSE IF width = 4 THEN Dy(raw[i], 31)
        ELSE Dy(raw[i], 0)]

\* (x + y) / 2 of two samples of one exponent, kept within 32 bits.
MeanPair(x, y) ==
    IF x.num % 2 = y.num % 2
    THEN Dy((x.num \div 2) + (y.num \div 2) + (x.num % 2), x.exp)
    ELSE Dy(x.num + y.num, x.exp + 1)

\* A downmix that keeps the left channel.
DownmixLeft(s) == [i \in 1 .. (Len(s) \div 2) |-> s[2 * i - 1]]

\* Line 43: samples.reshape((-1, 2)).mean(axis=1)
Downmix(s) == [i \in 1 .. (Len(s) \div 2) |-> MeanPair(s[2 * i - 1], s[2 * i])]

\* Line 49: librosa.resample(samples, orig_sr, target_sr), kept as the call it
\* is: its input and the length ceil(len * target_sr / orig_sr) of its output.
Resample(s, orig_sr, target_sr) ==
    [resampled |-> TRUE, of |-> s,
     n |-> (Len(s) * target_sr + orig_sr - 1) \div orig_sr]

\* Line 51 without a resampling: the samples as they are.
AsIs(s) == [resampled |-> FALSE, of |-> s, n |-> Len(s)]

RawArrays(w, c) == UNION {[1 .. (n * c) -> SampleValues(w)] : n \in 1 .. MaxFrames}

\* The AudioSegments AudioSegment.from_file returns in SpecDecode.
Segments ==
    UNION {[sample_width : {w}, channels : {c}, frame_rate : {8000, 22050, 44100},
            raw : RawArrays(w, c)] : w \in {1, 2, 4}, c \in {1, 2}}

decapi == <<pc, key, audio, locals, stages, outcome, raised, resp, shared, loop,
            health_served, flat>>

\* Lines 27-33: the payload decoded, samples = np.array(get_array_of_samples()).
DecLoad ==
    /\ dec.pc = "idle"
    /\ \E g \in Segments :
          dec' = [pc |-> "loaded", seg |-> g, samples |-> Normalize(g.raw, 0),
                  mono |-> <<>>, log |-> <<>>, out |-> <<>>]
    /\ UNCHANGED decapi

\* Lines 35-39.
DecNormalize ==
    /\ dec.pc = "loaded"
    /\ dec' = [dec EXCEPT !.pc = "normalized",
                          !.samples = Normalize(dec.seg.raw, dec.seg.sample_width),
                          !.log = IF dec.seg.sample_width \in {2, 4}
                                  THEN Append(@, "normalize") ELSE @]
    /\ UNCHANGED decapi

\* Lines 41-43.
DecDownmix ==
    /\ dec.pc = "normalized"
    /\ IF dec.seg.channels = 2
       THEN dec' = [dec EXCEPT !.pc = "mono", !.samples = Downmix(dec.samples),
                               !.mono = Downmix(dec.samples),
                               !.log = Append(@, "downmix")]
       ELSE dec' = [dec EXCEPT !.pc = "mono", !.mono = dec.samples]
    /\ UNCHANGED decapi

\* Lines 45-51.
DecResampleReturn ==
    /\ dec.pc = "mono"
    /\ IF dec.seg.frame_rate # sample_rate
       THEN dec' = [dec EXCEPT !.pc = "returned",
                               !.out = <<Resample(dec.samples, dec.seg.frame_rate,
                                                  sample_rate)>>,
                               !.log = Append(@, "resample")]
       ELSE dec' = [dec EXCEPT !.pc = "returned", !.out = <<AsIs(dec.samples)>>]
    /\ UNCHANGED decapi

NextDecode == DecLoad \/ DecNormalize \/ DecDownmix \/ DecResampleReturn

SpecDecode == Init /\ [][NextDecode]_vars

\* ------------------------------------------------------------- flatten_features
\* A dict is the sequence of its entries in insertion order, with distinct
\* keys. A key is the sequence of the code points of the name; a value is a
\* float, held in a cell so that values of both kinds compare, or a
\* one-dimensional ndarray.
FeatureNames == {<<1>>, <<1, 1>>, <<1, 2>>, <<2>>}
Scalar(x) == [ndarray |-> FALSE, x |-> <<x>>]
NdArray(a) == [ndarray |-> TRUE, x |-> a]
FeatureValues == {Scalar(7), NdArray(<<>>), NdArray(<<1>>), NdArray(<<1, 2>>)}

Dicts ==
    UNION {{d \in [1 .. n -> [k : FeatureNames, v : FeatureValues]] :
                \A i, j \in 1 .. n : d[i].k = d[j].k => i = j} : n \in 0 .. MaxEntries}

\* The same mapping with its entries inserted in any order.
Reorderings(d) ==
    {[i \in 1 .. Len(d) |-> d[p[i]]] :
        p \in {q \in [1 .. Len(d) -> 1 .. Len(d)] :
                  \A i, j \in 1 .. Len(d) : q[i] = q[j] => i = j}}

\* features.keys(): the keys in insertion order
DictKeys(d) == [i \in 1 .. Len(d) |-> d[i].k]

\* features[key]
GetItem(d, name) == (CHOOSE e \in {d[i] : i \in 1 .. Len(d)} : e.k = name).v

\* str < str: by code point, a proper prefix first
LexLt(a, b) ==
    \/ Len(a) < Len(b) /\ \A j \in 1 .. Len(a) : a[j] = b[j]
    \/ \E i \in 1 .. Len(b) :
          /\ i <= Len(a)
          /\ a[i] < b[i]
          /\ \A j \in 1 .. (i - 1) : a[j] = b[j]

\* The keys left as they were inserted.
InsertionOrder(s) == s

RECURSIVE Insert(_, _)
Insert(x, s) ==
    IF s = <<>> THEN <<x>>
    ELSE IF LexLt(x, Head(s)) THEN <<x>> \o s
    ELSE <<Head(s)>> \o Insert(x, Tail(s))

RECURSIVE SortedFrom(_, _)
SortedFrom(s, acc) == IF s = <<>> THEN acc ELSE SortedFrom(Tail(s), Insert(Head(s), acc))

\* Line 177: sorted(features.keys())
Sorted(s) == SortedFrom(s, <<>>)

flatapi == <<pc, key, audio, locals, stages, outcome, raised, resp, shared, loop,
             health_served, dec>>

\* Lines 175-177, entered with the dict `features`.
FlatBegin(d, rest, outs) ==
    [pc |-> "loop", features |-> d, rest |-> rest,
     keys |-> Sorted(DictKeys(d)), feature_list |-> <<>>, outs |-> outs]

\* flatten_features is called with a dict; the same mapping, inserted in
\* another order, is kept for a second call.
FlatCall ==
    /\ flat.pc = "idle"
    /\ \E d \in Dicts : \E e \in Reorderings(d) : flat' = FlatBegin(d, <<e>>, <<>>)
    /\ UNCHANGED flatapi

\* Lines 177-182: one pass of the loop.
FlatIterate ==
    /\ flat.pc = "loop"
    /\ flat.keys # <<>>
    /\ LET value == GetItem(flat.features, Head(flat.keys))
       IN flat' = [flat EXCEPT !.keys = Tail(@),
                               !.feature_list = IF value.ndarray
                                                THEN @ \o value.x
                                                ELSE Append(@, value.x[1])]
    /\ UNCHANGED flatapi

\* Line 184.
FlatReturn ==
    /\ flat.pc = "loop"
    /\ flat.keys = <<>>
    /\ flat' = [flat EXCEPT !.pc = "returned", !.outs = Append(@, flat.feature_list)]
    /\ UNCHANGED flatapi

\* The second call, with the reordered dict.
FlatCallAgain ==
    /\ flat.pc = "returned"
    /\ flat.rest # <<>>
    /\ flat' = FlatBegin(Head(flat.rest), Tail(flat.rest), flat.outs)
    /\ UNCHANGED flatapi

NextFlatten == FlatCall \/ FlatIterate \/ FlatReturn \/ FlatCallAgain

SpecFlatten == Init /\ [][NextFlatten]_vars

\* ------------------------------------------------------------- specifications
\* The server: NumRequests requests to POST /detect, and GET /health.
Next ==
    \/ HealthCheck
    \/ \E r \in Requests :
        \/ Receive(r)
        \/ VerifyKeyStep(r)
        \/ ValidateStep(r)
        \/ Base64ToAudioStep(r)
        \/ ExtractFeaturesStep(r)
        \/ CalculateAiScoreStep(r)
        \/ ClassifyStep(r)
        \/ RouteReturnStep(r)
        \/ RouteRaisedStep(r)

Spec == Init /\ [][Next]_vars

\* The pipeline on its own: one direct call of VoiceDetector.detect.
NextDetect ==
    \E r \in {1} :
        \/ CallDetect(r)
        \/ Base64ToAudioStep(r)
        \/ ExtractFeaturesStep(r)
        \/ CalculateAiScoreStep(r)
        \/ ClassifyStep(r)

SpecDetect == Init /\ [][NextDetect]_vars

\* ------------------------------------------------------------- properties
Pipeline == <<"decode", "extract", "score", "classify">>
IsPrefix(s, t) == Len(s) <= Len(t) /\ s = SubSeq(t, 1, Len(s))
Ran(r, stage) == \E i \in 1 .. Len(stages[r]) : stages[r][i] = stage
Returned(r) == outcome[r] # <<>> /\ outcome[r][1].kind = "return"
Raised(r) == outcome[r] # <<>> /\ outcome[r][1].kind = "raise"
NonFinite(f) ==
    \/ ~IsFin(NpMean(f.mfcc_var)) \/ ~IsFin(f.spectral_centroid_var)
    \/ ~IsFin(f.rms_var) \/ ~IsFin(NpMean(f.chroma_std))
    \/ ~IsFin(NpMean(f.tonnetz_std)) \/ ~IsFin(f.zcr_std)

\* C1: every call of detect that returns gives a label that is AI_GENERATED or
\* HUMAN and a finite confidence c with 0.0 <= c <= 1.0, whatever the features
\* (NaN and infinite statistics included) and whatever the noise drawn.
C1_ReturnInRange ==
    \A r \in Requests :
        Returned(r) =>
            LET o == outcome[r][1]
            IN /\ o.classification \in {"AI_GENERATED", "HUMAN"}
               /\ IsFin(o.confidence)
               /\ 0 <= o.confidence.v
               /\ o.confidence.v <= One

\* C1 witness: a call returned for features that hold a NaN, with the largest noise.
C1_Witness ==
    \E r \in Requests :
        /\ Returned(r)
        /\ NonFinite(features[r][1])
        /\ noise[r] = <<1500>>

\* C2: for the score s the scorer returned, s >= 0.5 gives AI_GENERATED with
\* confidence s, and s < 0.5 gives HUMAN with confidence 1.0 - s; a score of
\* exactly 0.5 is AI_GENERATED with confidence 0.5.
C2_ClassificationRule ==
    \A r \in Requests :
        Returned(r) =>
            LET s == score[r][1]
                o == outcome[r][1]
            IN /\ IsFin(s)
               /\ s.v >= Half => o.classification = "AI_GENERATED" /\ o.confidence = s
               /\ s.v < Half => o.classification = "HUMAN" /\ o.confidence = Fin(One - s.v)
               /\ s.v = Half => o.confidence = Fin(Half)

\* C2 witness: a call returned on a score of exactly 0.5, reached without noise.
C2_Witness ==
    \E r \in Requests :
        /\ Returned(r)
        /\ noise[r] = <<0>>
        /\ score[r] = <<Fin(Half)>>
        /\ outcome[r][1].classification = "AI_GENERATED"

\* C3: the stages run in the order decode, extract, score, classify, each at
\* most once; once a stage has raised, no later stage has run or left a value,
\* detect has given its caller no label and no confidence, and what the caller
\* got is one ValueError whose message starts with "Detection error: ".
C3_StagesInOrderOneError ==
    \A r \in Requests :
        /\ IsPrefix(stages[r], Pipeline)
        /\ Len(outcome[r]) <= 1
        /\ Raised(r) =>
              LET o == outcome[r][1]
              IN /\ o.type = "ValueError"
                 /\ o.msg # <<>> /\ Head(o.msg) = "Detection error: "
                 /\ o.classification = "" /\ o.confidence = NaN
                 /\ stages[r] \in {<<"decode">>, <<"decode", "extract">>}
                 /\ features[r] = <<>> /\ score[r] = <<>> /\ noise[r] = <<>>
                 /\ stages[r] = <<"decode">> => samples[r] = <<>>
        /\ Returned(r) => stages[r] = Pipeline

\* C3 witness: feature extraction raised after a successful decode, and the
\* route has already answered the request.
C3_Witness ==
    \E r \in Requests :
        /\ Raised(r)
        /\ stages[r] = <<"decode", "extract">>
        /\ pc[r] = "done"

\* C4, as claimed: no call with an empty or whitespace-only text reaches
\* base64_to_audio.
C4_EmptyNeverDecoded ==
    \A r \in Requests : AudioEmpty(audio[r].text) => ~Ran(r, "decode")

\* C5, as claimed: a request whose key is missing or wrong is answered with
\* status 401 and the detector is never invoked for it.
C5_BadKeyIs401 ==
    \A r \in Requests :
        pc[r] = "done" /\ KeyRejected(key[r]) =>
            /\ resp[r][1].status = 401
            /\ stages[r] = <<>> /\ outcome[r] = <<>>

\* The status a finished request was answered with is code: either the status
\* of the response, or the status_code of the HTTPException the route raised.
Answered(r, code) ==
    \/ resp[r][1].status = code
    \/ raised[r] # <<>> /\ raised[r][1].status_code = code

\* C6, as claimed: a request with the valid key and an empty audio field is
\* answered with status 400.
C6_EmptyAudioIs400 ==
    \A r \in Requests :
        pc[r] = "done" /\ ~KeyRejected(key[r]) /\ audio[r].text = EmptyText =>
            Answered(r, 400)

\* The input of the request is malformed: empty, bad base64, no MP3, no samples.
Malformed(p) ==
    \/ AudioEmpty(p.text)
    \/ ~B64Decode(p.text).ok
    \/ p.media.kind \in {"garbage", "degenerate"}
\* Processing of a well-formed input failed for a reason of its own.
Unexpected(p) == ~Malformed(p) /\ p.media.kind = "huge"

\* C7, as claimed: for a request with the valid key, a failure caused by
\* malformed input is answered 400 and an unexpected failure inside processing
\* is answered 500.
C7_FailuresMappedByCause ==
    \A r \in Requests :
        pc[r] = "done" /\ ~KeyRejected(key[r]) =>
            /\ Malformed(audio[r]) => Answered(r, 400) /\ ~Answered(r, 500)
            /\ Unexpected(audio[r]) => Answered(r, 500) /\ ~Answered(r, 400)

\* C8, as claimed: when a statistic is not finite the pipeline fails; detect
\* never returns a label and confidence for such features.
C8_NonFiniteFails ==
    \A r \in Requests :
        features[r] # <<>> /\ NonFinite(features[r][1]) => ~Returned(r)

\* C9: two scoring calls on identical features, both with noise 0, gave
\* identical scores, whichever ran first and whatever ran in between.
C9_ScorePureWithoutNoise ==
    \A r1, r2 \in Requests :
        /\ score[r1] # <<>> /\ score[r2] # <<>>
        /\ features[r1] = features[r2]
        /\ noise[r1] = <<0>> /\ noise[r2] = <<0>>
        => score[r1] = score[r2]

\* C9 witness: two different requests scored the same features without noise,
\* off the clamp, the second after the generator had been used.
C9_Witness ==
    \E r1, r2 \in Requests :
        /\ r1 # r2
        /\ score[r1] # <<>> /\ score[r2] # <<>>
        /\ features[r1] = features[r2]
        /\ noise[r1] = <<0>> /\ noise[r2] = <<0>>
        /\ score[r1] = <<Fin(Half)>>
        /\ rng_draws = 2

\* C10, as claimed: no step of any request changes state shared between requests.
C10_NoSharedMutableState == [][shared' = shared]_vars

\* C10, amended: no step changes the shared configuration (feature weights,
\* sample rate, the Config singleton); the one shared state a request changes is the position of the
\* process-wide generator; and two requests with the same payload that drew
\* the same noise got the same outcome from detect.
C10_ConfigReadOnlyResultByNoise ==
    /\ [][/\ feature_weights' = feature_weights
          /\ sample_rate' = sample_rate
          /\ config' = config]_vars
    /\ [](\A r1, r2 \in Requests :
            /\ outcome[r1] # <<>> /\ outcome[r2] # <<>>
            /\ audio[r1] = audio[r2]
            /\ noise[r1] = noise[r2]
            => outcome[r1] = outcome[r2])

\* C10 witness: two requests with the same payload drew the same noise, one
\* after the other from the shared generator, and both calls returned.
C10_Witness ==
    \E r1, r2 \in Requests :
        /\ r1 # r2
        /\ Returned(r1) /\ Returned(r2)
        /\ audio[r1] = audio[r2]
        /\ noise[r1] = noise[r2]
        /\ rng_draws = 2

\* C11, as claimed: while the feature extraction of one request is running,
\* the server can start the handler of another request to /detect that has
\* arrived, and can answer a request to /health.
C11_OthersProgressDuringExtraction ==
    \A r \in Requests :
        pc[r] = "decoded" =>
            /\ ENABLED HealthCheck
            /\ \A q \in Requests : pc[q] = "idle" => ENABLED Receive(q)

\* |num / 2^exp| <= 1, computed on num \div 2 to stay within 32 bits.
InUnit(x) ==
    IF x.exp = 0
    THEN -1 <= x.num /\ x.num <= 1
    ELSE -Pow2(x.exp - 1) <= x.num \div 2 /\ x.num \div 2 <= Pow2(x.exp - 1)

\* C12, as claimed: for every sample width, every sample of the buffer that
\* base64_to_audio returns (or hands to the resampler to return) lies in
\* [-1.0, 1.0].
C12_ReturnedSamplesNormalized ==
    dec.pc = "returned" =>
        \A i \in 1 .. Len(dec.out[1].of) : InUnit(dec.out[1].of[i])

\* C13: for a two-channel segment the mono sequence formed before any
\* resampling has one sample per pair, the i-th being (a_i + b_i) / 2 of the
\* normalized pair; the downmix precedes the resampling; the resampler is
\* called exactly when the native rate differs from the target rate, and what
\* it is given, like what is returned without it, is that mono sequence.
C13_DownmixBeforeResample ==
    dec.pc \in {"mono", "returned"} /\ dec.seg.channels = 2 =>
        LET n == Normalize(dec.seg.raw, dec.seg.sample_width)
        IN /\ Len(dec.mono) * 2 = Len(dec.seg.raw)
           /\ \A i \in 1 .. Len(dec.mono) :
                 LET a == n[2 * i - 1]
                     b == n[2 * i]
                     m == dec.mono[i]
                 IN \/ /\ m.exp = a.exp + 1
                       /\ m.num = a.num + b.num
                       /\ a.num % 2 # b.num % 2
                    \/ /\ m.exp = a.exp
                       /\ a.num % 2 = b.num % 2
                       /\ m.num - (a.num \div 2) - (b.num \div 2) = a.num % 2
           /\ dec.pc = "mono" => ~(\E j \in 1 .. Len(dec.log) : dec.log[j] = "resample")
           /\ dec.pc = "returned" =>
                 /\ dec.out[1].of = dec.mono
                 /\ dec.out[1].resampled <=> dec.seg.frame_rate # sample_rate
                 /\ dec.out[1].resampled =>
                       /\ dec.log[Len(dec.log)] = "resample"
                       /\ dec.log[Len(dec.log) - 1] = "downmix"

\* C13 witness: a two-channel segment of two frames with unequal channels, at
\* a rate other than the target rate, has been downmixed, resampled and returned.
C13_Witness ==
    /\ dec.pc = "returned"
    /\ dec.seg.channels = 2
    /\ Len(dec.seg.raw) = 4
    /\ dec.seg.raw[1] # dec.seg.raw[2]
    /\ dec.seg.frame_rate = 44100
    /\ dec.out[1].resampled

\* What a value contributes to the flat vector, and how many elements it has.
Contribution(v) == IF v.ndarray THEN v.x ELSE <<v.x[1]>>
EntrySize(v) == IF v.ndarray THEN Len(v.x) ELSE 1

\* The contributions of the names of S, least name first.
RECURSIVE ConcatInNameOrder(_, _)
ConcatInNameOrder(S, d) ==
    IF S = {} THEN <<>>
    ELSE LET least == CHOOSE n \in S : \A o \in S \ {n} : LexLt(n, o)
         IN Contribution(GetItem(d, least)) \o ConcatInNameOrder(S \ {least}, d)

RECURSIVE SizeSum(_)
SizeSum(d) == IF d = <<>> THEN 0 ELSE EntrySize(Head(d).v) + SizeSum(Tail(d))

\* C14: what flatten_features returns is the concatenation of the values in
\* lexicographic order of their names, an array giving its elements in index
\* order and a scalar one element; its length is the sum of the entry sizes;
\* and the same mapping inserted in another order flattens to the same vector.
C14_FlattenCanonical ==
    flat.pc = "returned" =>
        LET out == flat.outs[Len(flat.outs)]
            d == flat.features
        IN /\ out = ConcatInNameOrder({d[i].k : i \in 1 .. Len(d)}, d)
           /\ Len(out) = SizeSum(d)
           /\ Len(flat.outs) = 2 => flat.outs[1] = flat.outs[2]

\* C14 witness: a dict holding an array of two elements and a scalar, whose
\* keys were not inserted in sorted order, and its reordering, have both been
\* flattened.
C14_Witness ==
    /\ flat.pc = "returned"
    /\ Len(flat.outs) = 2
    /\ Len(flat.features) = MaxEntries
    /\ DictKeys(flat.features) # Sorted(DictKeys(flat.features))
    /\ \E i, j \in 1 .. Len(flat.features) :
          /\ flat.features[i].v = NdArray(<<1, 2>>)
          /\ flat.features[j].v = Scalar(7)
    /\ flat.outs[1] # <<>>

====
